---- MODULE Spec2Model ----
(***************************************************************************)
(* roland_pico_msx_mouse: USB HID mouse -> MSX / Roland MU-1 nibble        *)
(* emitter (src/unnamed/part_001, lines 115-380).                          *)
(*                                                                         *)
(* Two execution contexts on one core:                                     *)
(*   - the main loop (tuh_task with its HID callbacks, the drain, and      *)
(*     prepare_sequence_for_xy), modelled statement by statement through   *)
(*     the program counter pc, whose values are source line numbers;       *)
(*   - the strobe GPIO interrupt handler gpio_strobe_callback, which       *)
(*     preempts the main loop between any two statements unless            *)
(*     interrupts are masked by the critical section, and runs to          *)
(*     completion.                                                         *)
(***************************************************************************)
EXTENDS Integers, Sequences, FiniteSets, TLC

\* ---------------------------------------------------------------- constants
STROBE_PIN == 8
DELTA_SAT == 127
NibbleSeqSize == 8
SeqLen == 7
MOVE_SCALE == <<1, 1>>

\* ------------------------------------------------------------------- bounds
\* reports accepted between two drains (or a disconnect)
MaxBurst == 2

\* dx/dy bytes of the reports the mouse sends: 0, +1, -1, (100,-100), (-128,127)
DeltaBytes == { <<0, 0>>, <<1, 0>>, <<255, 0>>, <<100, 156>>, <<128, 127>> }
ButtonBytes == {0, 1}
ReportLens == {2, 3, 4}
Int8Range == (-128)..127

VARIABLES
    \* shared state of the program (part_001 lines 160-168)
    acc_x, acc_y, has_new_motion,
    nibble_seq, nibble_len, nibble_pos, sequence_active,
    \* open-drain level of the four data lines: 0 driven low, 1 released
    data_lines,
    \* main(): program counter (source line) and the block locals x, y, sx, sy
    pc, x, y, sx, sy,
    \* interrupt state of the core: enabled flag (critical section) and the
    \* latched strobe edge waiting for interrupts to be enabled again
    irq_enabled, irq_pending,
    \* environment: a HID mouse is mounted; the sensitivity factor of the build;
    \* open-drain level of the two button lines (BUTTON1_PIN, BUTTON2_PIN)
    mounted, move_scale, button_lines,
    \* observers (history only, never read by the program):
    committed,        \* the buffer as the last completed publish/handler left it
    edges,            \* handler invocations since the last publish, mod 7
    served,           \* a handler invocation has occurred since the last publish
    rd_frame, rd_pubs,\* reader's current frame: per nibble, publishes since frame start
    \* reports accepted and not yet drained (count, raw sums, sums of the
    \* rounded scaled deltas), kept until the draining iteration ends
    burst, raw_x, raw_y, rnd_x, rnd_y,
    \* scaled deltas accepted since the last disconnect minus the values drained
    owed_x, owed_y,
    \* a short report was discarded during the current tuh_task() call
    dropped

prog == <<acc_x, acc_y, has_new_motion, nibble_seq, nibble_len, nibble_pos,
          sequence_active, data_lines, pc, x, y, sx, sy, irq_enabled, irq_pending,
          mounted, move_scale, button_lines>>
obs == <<committed, edges, served, rd_frame, rd_pubs, burst, raw_x, raw_y, rnd_x, rnd_y,
         owed_x, owed_y, dropped>>
vars == <<prog, obs>>

\* ------------------------------------------------------------ C conversions
\* (int8_t)b for a byte or any int: the value modulo 256 read as signed
ToInt8(v) == LET b == v % 256 IN IF b >= 128 THEN b - 256 ELSE b

\* (uint8_t)v
ToUint8(v) == v % 256

\* variant: the delta is scaled by half the sensitivity factor
roundf_scaled_halved(d, s) ==
    LET n == d * s[1]
        k == 2 * s[2]
    IN  IF n >= 0 THEN (2 * n + k) \div (2 * k)
                  ELSE -((2 * (-n) + k) \div (2 * k))

\* roundf((float)d * MOVE_SCALE) for the factor s = <<num, den>>: the nearest
\* integer, halfway cases away from zero (d*num/den is exact in float here)
roundf_scaled(d, s) ==
    LET n == d * s[1]
        k == s[2]
    IN  IF n >= 0 THEN (2 * n + k) \div (2 * k)
                  ELSE -((2 * (-n) + k) \div (2 * k))

\* --------------------------------------------- MSX nibble output primitives
\* set_data_bit: bit 1 releases the line (input, hi-Z), bit 0 drives it low
set_data_bit(lines, bit_index, bit_value) ==
    [lines EXCEPT ![bit_index] = IF bit_value THEN 1 ELSE 0]

\* bit i of n: (n >> i) & 1
BitOf(n, i) == (n \div (2 ^ i)) % 2

\* set_data_nibble: for i = 0..3, set_data_bit(i, (nibble >> i) & 1)
RECURSIVE set_data_nibble_from(_, _, _)
set_data_nibble_from(lines, nibble, i) ==
    IF i >= 4 THEN lines
    ELSE set_data_nibble_from(set_data_bit(lines, i, BitOf(nibble, i) = 1), nibble, i + 1)

set_data_nibble(lines, nibble) == set_data_nibble_from(lines, nibble, 0)

\* variant: the idle branch drives the pins low instead of releasing them
release_data_lines_driven(lines) == [i \in DOMAIN lines |-> 0]

\* release_data_lines: every data pin becomes an input
release_data_lines(lines) == [i \in DOMAIN lines |-> 1]

\* ------------------------------------------------------------ clamp, encode
\* variant: only the upper saturation test
clamp_to_int8_upper_only(v) ==
    LET v1 == IF v > DELTA_SAT THEN DELTA_SAT ELSE v
    IN  ToInt8(v1)

\* variant: the accumulated value is narrowed to a byte without saturation
clamp_to_int8_wrapping(v) == ToInt8(v)

clamp_to_int8(v) ==
    LET v1 == IF v > DELTA_SAT THEN DELTA_SAT ELSE v
        v2 == IF v1 < -DELTA_SAT THEN -DELTA_SAT ELSE v1
    IN  ToInt8(v2)

\* variant: X low nibble written before X high nibble
SeqNibble_x_swapped(i, px, py) ==
    LET ux == ToUint8(px)
        uy == ToUint8(py)
    IN  CASE i = 0 -> 11
          [] i = 1 -> 15
          [] i = 2 -> 15
          [] i = 3 -> ux % 16
          [] i = 4 -> (ux \div 16) % 16
          [] i = 5 -> (uy \div 16) % 16
          [] OTHER -> uy % 16

\* the value prepare_sequence_for_xy(px, py) stores in nibble_seq[i], i = 0..6
SeqNibble(i, px, py) ==
    LET ux == ToUint8(px)
        uy == ToUint8(py)
    IN  CASE i = 0 -> 11
          [] i = 1 -> 15
          [] i = 2 -> 15
          [] i = 3 -> (ux \div 16) % 16
          [] i = 4 -> ux % 16
          [] i = 5 -> (uy \div 16) % 16
          [] OTHER -> uy % 16

\* variant: wrap one past the end of the sequence
NextPos_wrap_late(pos, len) == (pos + 1) % (len + 1)

\* variant: the cursor is not advanced
NextPos_stuck(pos, len) == pos % len

\* wrap of the cursor in the handler: (nibble_pos + 1) % nibble_len
NextPos(pos, len) == (pos + 1) % len

\* ------------------------------------------------------- observer operators
Abs(v) == IF v < 0 THEN -v ELSE v

\* the integer nearest to num/den (den > 0), the one of larger magnitude on a tie
Nearest(num, den) ==
    LET f == num \div den
        c == {f, f + 1}
        d(r) == Abs(num - r * den)
    IN  CHOOSE r \in c : \A q \in c : d(r) < d(q) \/ (d(r) = d(q) /\ Abs(r) >= Abs(q))

\* v saturated to [-127, 127]
Saturate(v) == IF v > 127 THEN 127 ELSE IF v < -127 THEN -127 ELSE v

\* the whole sequence buffer as one value
Buffer == [seq |-> nibble_seq, len |-> nibble_len, pos |-> nibble_pos,
           active |-> sequence_active]

\* ---------------------------------------------------------------- initial
\* the state when main() enters its loop (line 346): pins released, strobe
\* interrupt armed, TinyUSB initialised, no device mounted yet
InitProg ==
    /\ acc_x = 0 /\ acc_y = 0 /\ has_new_motion = FALSE
    /\ nibble_seq = [i \in 0..(NibbleSeqSize - 1) |-> 0]
    /\ nibble_len = 0 /\ nibble_pos = 0 /\ sequence_active = FALSE
    /\ data_lines = [i \in 0..3 |-> 1]
    /\ pc = 347 /\ x = 0 /\ y = 0 /\ sx = 0 /\ sy = 0
    /\ irq_enabled = TRUE /\ irq_pending = FALSE
    /\ mounted = FALSE
    /\ button_lines = [b \in 1..2 |-> 1]

InitObs ==
    /\ committed = Buffer
    /\ edges = 0 /\ served = FALSE /\ rd_frame = <<>> /\ rd_pubs = 0
    /\ burst = 0 /\ raw_x = 0 /\ raw_y = 0 /\ rnd_x = 0 /\ rnd_y = 0
    /\ owed_x = 0 /\ owed_y = 0 /\ dropped = FALSE

Init == InitProg /\ InitObs /\ move_scale = MOVE_SCALE

\* ------------------------------------------------- strobe interrupt handler
\* variant: the handler advances the cursor first and presents the nibble after it
gpio_strobe_callback_advance_first(gpio) ==
    IF gpio # STROBE_PIN
    THEN UNCHANGED <<nibble_pos, data_lines, committed, edges, served, rd_frame, rd_pubs>>
    ELSE /\ IF sequence_active /\ nibble_len > 0
            THEN /\ nibble_pos' = NextPos(nibble_pos, nibble_len)
                 /\ data_lines' = set_data_nibble(data_lines, nibble_seq[nibble_pos'])
            ELSE /\ data_lines' = release_data_lines(data_lines)
                 /\ nibble_pos' = nibble_pos
         /\ committed' = [committed EXCEPT !.pos = nibble_pos']
         /\ edges' = (edges + 1) % SeqLen
         /\ served' = TRUE
         /\ IF sequence_active
            THEN LET base == IF Len(rd_frame) = SeqLen THEN <<>> ELSE rd_frame
                 IN  /\ rd_frame' = Append(base, IF base = <<>> THEN 0 ELSE rd_pubs)
                     /\ rd_pubs' = IF Len(base) + 1 = SeqLen \/ base = <<>> THEN 0 ELSE rd_pubs
            ELSE UNCHANGED <<rd_frame, rd_pubs>>

\* gpio_strobe_callback, run to completion
gpio_strobe_callback(gpio) ==
    IF gpio # STROBE_PIN
    THEN UNCHANGED <<nibble_pos, data_lines, committed, edges, served, rd_frame, rd_pubs>>
    ELSE /\ IF sequence_active /\ nibble_len > 0
            THEN /\ data_lines' = set_data_nibble(data_lines, nibble_seq[nibble_pos])
                 /\ nibble_pos' = NextPos(nibble_pos, nibble_len)
            ELSE /\ data_lines' = release_data_lines(data_lines)
                 /\ nibble_pos' = nibble_pos
         /\ committed' = [committed EXCEPT !.pos = nibble_pos']
         /\ edges' = (edges + 1) % SeqLen
         /\ served' = TRUE
         /\ IF sequence_active
            THEN LET base == IF Len(rd_frame) = SeqLen THEN <<>> ELSE rd_frame
                 IN  /\ rd_frame' = Append(base, IF base = <<>> THEN 0 ELSE rd_pubs)
                     /\ rd_pubs' = IF Len(base) + 1 = SeqLen \/ base = <<>> THEN 0 ELSE rd_pubs
            ELSE UNCHANGED <<rd_frame, rd_pubs>>

\* variant: the handler also consumes the motion-pending flag
HandlerFrame_consumes_motion ==
    /\ has_new_motion' = FALSE
    /\ UNCHANGED <<acc_x, acc_y, nibble_seq, nibble_len, sequence_active,
                   pc, x, y, sx, sy, irq_enabled, mounted, move_scale, button_lines,
                   burst, raw_x, raw_y, rnd_x, rnd_y, owed_x, owed_y, dropped>>

HandlerFrame ==
    UNCHANGED <<acc_x, acc_y, has_new_motion, nibble_seq, nibble_len, sequence_active,
                pc, x, y, sx, sy, irq_enabled, mounted, move_scale, button_lines,
                burst, raw_x, raw_y, rnd_x, rnd_y, owed_x, owed_y, dropped>>

\* a strobe edge (rising or falling) while interrupts are enabled: the handler
\* preempts the main loop at once
StrobeEdge ==
    /\ irq_enabled /\ ~irq_pending
    /\ gpio_strobe_callback(STROBE_PIN)
    /\ UNCHANGED irq_pending
    /\ HandlerFrame

\* a strobe edge while the critical section masks interrupts: latched; the
\* handler is invoked once for it when interrupts are enabled again (further
\* edges inside the same window merge into the one pending interrupt)
StrobeEdgeMasked ==
    /\ ~irq_enabled /\ ~irq_pending
    /\ irq_pending' = TRUE
    /\ UNCHANGED <<acc_x, acc_y, has_new_motion, nibble_seq, nibble_len, nibble_pos,
                   sequence_active, data_lines, pc, x, y, sx, sy, irq_enabled,
                   mounted, move_scale, button_lines, obs>>

\* the latched edge is served as soon as interrupts are enabled again
StrobeDispatch ==
    /\ irq_enabled /\ irq_pending
    /\ irq_pending' = FALSE
    /\ gpio_strobe_callback(STROBE_PIN)
    /\ HandlerFrame

\* the main loop executes only while no enabled interrupt is waiting
MainRuns == ~(irq_enabled /\ irq_pending)

\* ------------------------------------------------ TinyUSB HID host callbacks
\* all three are invoked synchronously from tuh_task() (main loop, line 347)
EmitterVars == <<nibble_seq, nibble_len, nibble_pos, sequence_active, data_lines,
                 committed, edges, served, rd_frame, rd_pubs>>
MainLocals == <<pc, x, y, sx, sy>>

tuh_hid_mount_cb ==
    /\ MainRuns /\ pc = 347 /\ ~mounted
    /\ mounted' = TRUE
    /\ UNCHANGED <<acc_x, acc_y, has_new_motion, EmitterVars, MainLocals,
                   irq_enabled, irq_pending, move_scale, button_lines,
                   burst, raw_x, raw_y, rnd_x, rnd_y, owed_x, owed_y, dropped>>

\* variant: the disconnect also forces the emitter back to idle
tuh_hid_umount_cb_forces_idle ==
    /\ MainRuns /\ pc = 347 /\ mounted
    /\ mounted' = FALSE
    /\ acc_x' = 0 /\ acc_y' = 0
    /\ has_new_motion' = FALSE
    /\ sequence_active' = FALSE
    /\ burst' = 0 /\ raw_x' = 0 /\ raw_y' = 0 /\ rnd_x' = 0 /\ rnd_y' = 0
    /\ owed_x' = 0 /\ owed_y' = 0 /\ UNCHANGED dropped
    /\ UNCHANGED <<nibble_seq, nibble_len, nibble_pos, data_lines,
                   committed, edges, served, rd_frame, rd_pubs,
                   MainLocals, irq_enabled, irq_pending, move_scale, button_lines>>

\* variant: the disconnect zeroes the accumulator but leaves motion pending
tuh_hid_umount_cb_keeps_flag ==
    /\ MainRuns /\ pc = 347 /\ mounted
    /\ mounted' = FALSE
    /\ acc_x' = 0 /\ acc_y' = 0
    /\ burst' = 0 /\ raw_x' = 0 /\ raw_y' = 0 /\ rnd_x' = 0 /\ rnd_y' = 0
    /\ owed_x' = 0 /\ owed_y' = 0 /\ UNCHANGED dropped
    /\ UNCHANGED <<has_new_motion, EmitterVars, MainLocals, irq_enabled, irq_pending,
                   move_scale, button_lines>>

tuh_hid_umount_cb ==
    /\ MainRuns /\ pc = 347 /\ mounted
    /\ mounted' = FALSE
    /\ acc_x' = 0 /\ acc_y' = 0
    /\ has_new_motion' = FALSE
    /\ burst' = 0 /\ raw_x' = 0 /\ raw_y' = 0 /\ rnd_x' = 0 /\ rnd_y' = 0
    /\ owed_x' = 0 /\ owed_y' = 0 /\ UNCHANGED dropped
    /\ UNCHANGED <<EmitterVars, MainLocals, irq_enabled, irq_pending, move_scale, button_lines>>

\* variant: a report of two bytes is accepted as well
tuh_hid_report_received_cb_accepts_short(report, len) ==
    /\ MainRuns /\ pc = 347 /\ mounted
    /\ IF len >= 2
       THEN LET dx  == ToInt8(report[1])
                dy  == ToInt8(report[2])
                s_x == roundf_scaled(dx, move_scale)
                s_y == roundf_scaled(dy, move_scale)
            IN  /\ burst < MaxBurst
                /\ acc_x' = acc_x + s_x
                /\ acc_y' = acc_y + s_y
                /\ has_new_motion' = TRUE
                /\ burst' = burst + 1
                /\ raw_x' = raw_x + dx
                /\ raw_y' = raw_y + dy
                /\ rnd_x' = rnd_x + Nearest(dx * move_scale[1], move_scale[2])
                /\ rnd_y' = rnd_y + Nearest(dy * move_scale[1], move_scale[2])
                /\ owed_x' = owed_x + Nearest(dx * move_scale[1], move_scale[2])
                /\ owed_y' = owed_y + Nearest(dy * move_scale[1], move_scale[2])
                /\ UNCHANGED dropped
       ELSE /\ dropped' = TRUE
            /\ UNCHANGED <<acc_x, acc_y, has_new_motion, burst, raw_x, raw_y, rnd_x, rnd_y,
                           owed_x, owed_y>>
    /\ UNCHANGED <<EmitterVars, MainLocals, irq_enabled, irq_pending, mounted, move_scale, button_lines>>

\* report is the byte array [0 -> buttons, 1 -> dx, 2 -> dy], len its length
tuh_hid_report_received_cb(report, len) ==
    /\ MainRuns /\ pc = 347 /\ mounted
    /\ IF len >= 3
       THEN LET dx  == ToInt8(report[1])
                dy  == ToInt8(report[2])
                s_x == roundf_scaled(dx, move_scale)
                s_y == roundf_scaled(dy, move_scale)
            IN  /\ burst < MaxBurst
                /\ acc_x' = acc_x + s_x
                /\ acc_y' = acc_y + s_y
                /\ has_new_motion' = TRUE
                /\ burst' = burst + 1
                /\ raw_x' = raw_x + dx
                /\ raw_y' = raw_y + dy
                /\ rnd_x' = rnd_x + Nearest(dx * move_scale[1], move_scale[2])
                /\ rnd_y' = rnd_y + Nearest(dy * move_scale[1], move_scale[2])
                /\ owed_x' = owed_x + Nearest(dx * move_scale[1], move_scale[2])
                /\ owed_y' = owed_y + Nearest(dy * move_scale[1], move_scale[2])
                /\ UNCHANGED dropped
       ELSE /\ dropped' = TRUE
            /\ UNCHANGED <<acc_x, acc_y, has_new_motion, burst, raw_x, raw_y, rnd_x, rnd_y,
                           owed_x, owed_y>>
    /\ UNCHANGED <<EmitterVars, MainLocals, irq_enabled, irq_pending, mounted, move_scale, button_lines>>

\* the report [b, d[1], d[2]] as the byte array the callback receives
ReportOf(b, d) == (0 :> b) @@ (1 :> d[1]) @@ (2 :> d[2])

ReportReceived ==
    \E d \in DeltaBytes, b \in ButtonBytes, len \in ReportLens :
        tuh_hid_report_received_cb(ReportOf(b, d), len)

\* ----------------------------------------------------------- main loop body
\* tuh_task() returns (line 347 -> 350)
TaskReturn ==
    /\ MainRuns /\ pc = 347
    /\ pc' = 350
    /\ dropped' = FALSE
    /\ UNCHANGED <<acc_x, acc_y, has_new_motion, EmitterVars, x, y, sx, sy,
                   irq_enabled, irq_pending, mounted, move_scale, button_lines,
                   burst, raw_x, raw_y, rnd_x, rnd_y, owed_x, owed_y>>

\* variant: the drain copies the accumulator without resetting it
Drain_keeps_accumulator ==
    /\ MainRuns /\ pc = 350 /\ has_new_motion
    /\ x' = acc_x /\ y' = acc_y
    /\ has_new_motion' = FALSE
    /\ sx' = clamp_to_int8(acc_x)
    /\ sy' = clamp_to_int8(acc_y)
    /\ pc' = 365
    /\ owed_x' = owed_x - x'
    /\ owed_y' = owed_y - y'
    /\ UNCHANGED <<acc_x, acc_y, EmitterVars, irq_enabled, irq_pending, mounted,
                   move_scale, button_lines, burst, raw_x, raw_y, rnd_x, rnd_y, dropped>>

\* variant: the drain resets the accumulator but leaves motion pending
Drain_keeps_flag ==
    /\ MainRuns /\ pc = 350 /\ has_new_motion
    /\ x' = acc_x /\ y' = acc_y
    /\ acc_x' = 0 /\ acc_y' = 0
    /\ sx' = clamp_to_int8(acc_x)
    /\ sy' = clamp_to_int8(acc_y)
    /\ pc' = 365
    /\ owed_x' = owed_x - x'
    /\ owed_y' = owed_y - y'
    /\ UNCHANGED <<has_new_motion, EmitterVars, irq_enabled, irq_pending, mounted,
                   move_scale, button_lines, burst, raw_x, raw_y, rnd_x, rnd_y, dropped>>

\* lines 350-362: motion pending, grab and reset the accumulators, clamp
Drain ==
    /\ MainRuns /\ pc = 350 /\ has_new_motion
    /\ x' = acc_x /\ y' = acc_y
    /\ acc_x' = 0 /\ acc_y' = 0
    /\ has_new_motion' = FALSE
    /\ sx' = clamp_to_int8(acc_x)
    /\ sy' = clamp_to_int8(acc_y)
    /\ pc' = 365
    /\ owed_x' = owed_x - x'
    /\ owed_y' = owed_y - y'
    /\ UNCHANGED <<EmitterVars, irq_enabled, irq_pending, mounted, move_scale, button_lines,
                   burst, raw_x, raw_y, rnd_x, rnd_y, dropped>>

\* line 350 with no motion pending: straight to the sleep at line 376
NoMotion ==
    /\ MainRuns /\ pc = 350 /\ ~has_new_motion
    /\ pc' = 376
    /\ UNCHANGED <<acc_x, acc_y, has_new_motion, EmitterVars, x, y, sx, sy,
                   irq_enabled, irq_pending, mounted, move_scale, button_lines,
                   burst, raw_x, raw_y, rnd_x, rnd_y, owed_x, owed_y, dropped>>

\* variant: every drained delta is published, (0, 0) included
Branch_always_publish ==
    /\ MainRuns /\ pc = 365
    /\ pc' = 277
    /\ UNCHANGED <<acc_x, acc_y, has_new_motion, EmitterVars, x, y, sx, sy,
                   irq_enabled, irq_pending, mounted, move_scale, button_lines,
                   burst, raw_x, raw_y, rnd_x, rnd_y, owed_x, owed_y, dropped>>

\* variant: the publish is skipped when either clamped component is 0
Branch_either_zero ==
    /\ MainRuns /\ pc = 365
    /\ pc' = IF sx = 0 \/ sy = 0 THEN 376 ELSE 277
    /\ UNCHANGED <<acc_x, acc_y, has_new_motion, EmitterVars, x, y, sx, sy,
                   irq_enabled, irq_pending, mounted, move_scale, button_lines,
                   burst, raw_x, raw_y, rnd_x, rnd_y, owed_x, owed_y, dropped>>

\* line 365: a clamped delta of (0, 0) is not published
Branch ==
    /\ MainRuns /\ pc = 365
    /\ pc' = IF sx = 0 /\ sy = 0 THEN 376 ELSE 277
    /\ UNCHANGED <<acc_x, acc_y, has_new_motion, EmitterVars, x, y, sx, sy,
                   irq_enabled, irq_pending, mounted, move_scale, button_lines,
                   burst, raw_x, raw_y, rnd_x, rnd_y, owed_x, owed_y, dropped>>

\* line 376: end of the iteration; the block locals go out of scope
Sleep ==
    /\ MainRuns /\ pc = 376
    /\ pc' = 347
    /\ x' = 0 /\ y' = 0 /\ sx' = 0 /\ sy' = 0
    /\ burst' = 0 /\ raw_x' = 0 /\ raw_y' = 0 /\ rnd_x' = 0 /\ rnd_y' = 0
    /\ UNCHANGED <<acc_x, acc_y, has_new_motion, EmitterVars,
                   irq_enabled, irq_pending, mounted, move_scale, button_lines,
                   owed_x, owed_y, dropped>>

\* ------------------------------------- prepare_sequence_for_xy(sx, sy), 277-299
PublishFrame ==
    UNCHANGED <<acc_x, acc_y, has_new_motion, x, y, sx, sy, irq_pending, mounted,
                move_scale, button_lines, burst, raw_x, raw_y, rnd_x, rnd_y,
                owed_x, owed_y, dropped>>

\* variant: the sequence is prepared without masking interrupts
critical_section_enter_unmasked ==
    /\ MainRuns /\ pc = 277
    /\ pc' = 283
    /\ UNCHANGED <<EmitterVars, irq_enabled>>
    /\ PublishFrame

\* line 277: critical_section_enter_blocking masks interrupts on this core
critical_section_enter ==
    /\ MainRuns /\ pc = 277
    /\ irq_enabled' = FALSE
    /\ pc' = 283
    /\ UNCHANGED EmitterVars
    /\ PublishFrame

\* lines 283-289: nibble_seq[pc - 283] = ...
WriteNibble ==
    /\ MainRuns /\ pc \in 283..289
    /\ nibble_seq' = [nibble_seq EXCEPT ![pc - 283] = SeqNibble(pc - 283, sx, sy)]
    /\ pc' = IF pc = 289 THEN 291 ELSE pc + 1
    /\ UNCHANGED <<nibble_len, nibble_pos, sequence_active, data_lines,
                   committed, edges, served, rd_frame, rd_pubs, irq_enabled>>
    /\ PublishFrame

\* line 291
SetLen ==
    /\ MainRuns /\ pc = 291
    /\ nibble_len' = SeqLen
    /\ pc' = 292
    /\ UNCHANGED <<nibble_seq, nibble_pos, sequence_active, data_lines,
                   committed, edges, served, rd_frame, rd_pubs, irq_enabled>>
    /\ PublishFrame

\* line 292
ResetPos ==
    /\ MainRuns /\ pc = 292
    /\ nibble_pos' = 0
    /\ pc' = 293
    /\ UNCHANGED <<nibble_seq, nibble_len, sequence_active, data_lines,
                   committed, edges, served, rd_frame, rd_pubs, irq_enabled>>
    /\ PublishFrame

\* line 293
SetActive ==
    /\ MainRuns /\ pc = 293
    /\ sequence_active' = TRUE
    /\ pc' = 297
    /\ UNCHANGED <<nibble_seq, nibble_len, nibble_pos, data_lines,
                   committed, edges, served, rd_frame, rd_pubs, irq_enabled>>
    /\ PublishFrame

\* variant: the first nibble is left for the next strobe edge to present
ExposeFirst_skipped ==
    /\ MainRuns /\ pc = 297
    /\ pc' = 299
    /\ UNCHANGED <<EmitterVars, irq_enabled>>
    /\ PublishFrame

\* line 297: the first nibble goes on the lines right away
ExposeFirst ==
    /\ MainRuns /\ pc = 297
    /\ data_lines' = set_data_nibble(data_lines, nibble_seq[0])
    /\ pc' = 299
    /\ UNCHANGED <<nibble_seq, nibble_len, nibble_pos, sequence_active,
                   committed, edges, served, rd_frame, rd_pubs, irq_enabled>>
    /\ PublishFrame

\* line 299: critical_section_exit unmasks interrupts; the publish is complete
critical_section_exit ==
    /\ MainRuns /\ pc = 299
    /\ irq_enabled' = TRUE
    /\ pc' = 376
    /\ committed' = Buffer
    /\ edges' = 0
    /\ served' = FALSE
    /\ rd_pubs' = IF Len(rd_frame) \in {0, SeqLen} THEN 0 ELSE 1
    /\ rd_frame' = IF Len(rd_frame) = SeqLen THEN <<>> ELSE rd_frame
    /\ UNCHANGED <<nibble_seq, nibble_len, nibble_pos, sequence_active, data_lines>>
    /\ PublishFrame

\* ------------------------------------------------------------ specification
Strobe == StrobeEdge \/ StrobeEdgeMasked \/ StrobeDispatch

Usb == tuh_hid_mount_cb \/ tuh_hid_umount_cb \/ ReportReceived

Publish ==
    \/ critical_section_enter
    \/ WriteNibble
    \/ SetLen
    \/ ResetPos
    \/ SetActive
    \/ ExposeFirst
    \/ critical_section_exit

MainLoop == TaskReturn \/ Drain \/ NoMotion \/ Branch \/ Publish \/ Sleep

Next == Strobe \/ Usb \/ MainLoop

Spec == Init /\ [][Next]_vars

\* the same program under a fair scheduler and a smaller set of reports: the
\* main loop keeps executing (it is the only foreground thread and none of its
\* statements waits), and the interrupt controller serves a latched edge as
\* soon as interrupts are enabled
LiveDeltaBytes == { <<0, 0>>, <<1, 0>>, <<255, 0>> }

ReportReceivedLive ==
    \E d \in LiveDeltaBytes, len \in ReportLens :
        tuh_hid_report_received_cb(ReportOf(0, d), len)

NextLive == Strobe \/ tuh_hid_mount_cb \/ tuh_hid_umount_cb \/ ReportReceivedLive \/ MainLoop

Fairness == WF_vars(MainLoop) /\ WF_vars(StrobeDispatch)

SpecLive == Init /\ [][NextLive]_vars /\ Fairness

\* one report (dx, dy), any signed bytes, accepted and waiting for the drain;
\* from there the main loop alone runs (drain, clamp, publish)
InitEnc ==
    /\ acc_x \in Int8Range /\ acc_y \in Int8Range /\ has_new_motion = TRUE
    /\ nibble_seq = [i \in 0..(NibbleSeqSize - 1) |-> 0]
    /\ nibble_len = 0 /\ nibble_pos = 0 /\ sequence_active = FALSE
    /\ data_lines = [i \in 0..3 |-> 1]
    /\ pc = 347 /\ x = 0 /\ y = 0 /\ sx = 0 /\ sy = 0
    /\ irq_enabled = TRUE /\ irq_pending = FALSE
    /\ mounted = TRUE /\ move_scale = MOVE_SCALE
    /\ button_lines = [b \in 1..2 |-> 1]
    /\ committed = Buffer
    /\ edges = 0 /\ served = FALSE /\ rd_frame = <<>> /\ rd_pubs = 0
    /\ burst = 1 /\ raw_x = acc_x /\ raw_y = acc_y /\ rnd_x = acc_x /\ rnd_y = acc_y
    /\ owed_x = acc_x /\ owed_y = acc_y /\ dropped = FALSE

SpecEnc == InitEnc /\ [][MainLoop]_vars

\* =================================================================== claims
\* levels of the four data lines when nibble n is presented (bit i on line i)
LinesOf(n) == [i \in 0..3 |-> (n \div (2 ^ i)) % 2]

AllReleased == \A i \in 0..3 : data_lines[i] = 1

\* a strobe-edge handler invocation
HandlerRuns == StrobeEdge \/ StrobeDispatch

\* the byte v as a signed value, a signed value as its two's-complement byte
SignedByte(b) == IF b >= 128 THEN b - 256 ELSE b
TwosComplement(v) == IF v < 0 THEN v + 256 ELSE v

\* C1: every handler invocation finds the sequence buffer (7 nibbles, length,
\* cursor, active flag) exactly as the last completed publish and the handler
\* invocations since left it: it never runs on a partially updated buffer.
C1_HandlerSeesWholeBuffer == [][HandlerRuns => Buffer = committed]_vars

\* a strobe edge arrived while a publish was replacing an active sequence and
\* is held back until the publish completes
C1_Witness ==
    /\ ~irq_enabled /\ irq_pending
    /\ sequence_active
    /\ Buffer # committed

\* C2: the 7 nibbles the reader takes as one frame all come from the same
\* published sequence (no publish falls between two nibbles of a frame).
C2_FrameFromOnePublish == \A i, j \in DOMAIN rd_frame : rd_frame[i] = rd_frame[j]

\* C3: while a sequence is active its length is 7 and the cursor is a valid
\* index, so the handler's read and its modulo advance are defined; from the
\* last index the cursor wraps to 0 and the sequence stays active.
C3_CursorValid ==
    /\ [](sequence_active =>
            /\ nibble_len = 7
            /\ nibble_pos >= 0 /\ nibble_pos < nibble_len
            /\ nibble_pos \in DOMAIN nibble_seq)
    /\ [][(HandlerRuns /\ sequence_active /\ nibble_pos = 6)
            => (nibble_pos' = 0 /\ sequence_active')]_vars

\* a whole frame was read without a publish in between and the cursor is
\* back at 0
C3_Witness ==
    /\ sequence_active /\ nibble_pos = 0
    /\ Len(rd_frame) = 7
    /\ \A i \in DOMAIN rd_frame : rd_frame[i] = 0

\* C4: as long as no sequence is active (none was ever published) all four
\* data lines are released, whatever strobe edges and reports have occurred.
C4_IdleLinesReleased == ~sequence_active => AllReleased

\* idle, strobe edges handled, a report accepted and not yet drained
C4_Witness ==
    /\ ~sequence_active /\ edges > 0
    /\ has_new_motion /\ acc_x # 0

\* C5: the k-th handler invocation after a publish presents nibble
\* (k-1) mod 7 of the published sequence.
C5_KthEdgeNibble ==
    [][(HandlerRuns /\ sequence_active)
         => data_lines' = LinesOf(committed.seq[edges])]_vars

\* seven edges after a publish: the last nibble is on the lines and the
\* cursor has wrapped, the eighth edge starts the same frame again
C5_Witness ==
    /\ sequence_active /\ edges = 0 /\ nibble_pos = 0
    /\ Len(rd_frame) = 7 /\ rd_frame[7] = 0
    /\ nibble_seq[6] # nibble_seq[0]
    /\ data_lines = LinesOf(nibble_seq[6])

\* C6: the active flag rises only in a publish (line 293) and never falls, and
\* a handler invocation that finds it set presents the nibble at the cursor
\* instead of releasing the lines for idle.
C6_StreamingIsPermanent ==
    [][/\ (sequence_active => sequence_active')
       /\ ((~sequence_active /\ sequence_active') => (pc = 293 /\ pc' = 297))
       /\ ((HandlerRuns /\ sequence_active)
              => data_lines' = LinesOf(nibble_seq[nibble_pos]))]_vars

\* streaming goes on after the device is gone: edges served since the last
\* publish, nothing accumulated, a driven nibble on the lines
C6_Witness ==
    /\ sequence_active /\ ~mounted
    /\ edges > 0 /\ ~has_new_motion
    /\ ~AllReleased

\* the sequence prepare_sequence_for_xy builds for (px, py), from the layout
\* ID PAD PAD Xhi Xlo Yhi Ylo and the two's-complement bytes of px, py
IsFrameOf(seq, px, py) ==
    /\ seq[0] = 11 /\ seq[1] = 15 /\ seq[2] = 15
    /\ \A i \in 0..6 : seq[i] \in 0..15
    /\ 16 * seq[3] + seq[4] = TwosComplement(px)
    /\ 16 * seq[5] + seq[6] = TwosComplement(py)

\* C7: in the state a publish completes in, the cursor is 0, the flag is set
\* and the lines show nibble 0 of the sequence just published for (sx, sy).
C7_PublishExposesFirst ==
    [][critical_section_exit =>
         /\ nibble_pos' = 0
         /\ sequence_active'
         /\ IsFrameOf(nibble_seq', sx, sy)
         /\ data_lines' = LinesOf(nibble_seq'[0])]_vars

\* a publish has just replaced an active sequence in the middle of a frame,
\* after at least four nibbles of that frame had been served
C7_Witness ==
    /\ pc = 376 /\ (sx # 0 \/ sy # 0)
    /\ rd_pubs = 1 /\ Len(rd_frame) >= 4
    /\ edges = 0 /\ nibble_pos = 0 /\ ~irq_pending
    /\ data_lines = LinesOf(11)

\* the main loop has completed a publish for (sx, sy) in this iteration
Published == pc = 376 /\ (sx # 0 \/ sy # 0)

\* C8: the published sequence for a clamped (x, y) has length 7 and is
\* [0xB, 0xF, 0xF, X bits 4-7, X bits 0-3, Y bits 4-7, Y bits 0-3].
C8_FrameLayout ==
    Published =>
        /\ sx \in (-127)..127 /\ sy \in (-127)..127
        /\ nibble_len = 7
        /\ IsFrameOf(nibble_seq, sx, sy)

C8_Witness ==
    /\ Published /\ sx = -127 /\ sy = 5
    /\ nibble_seq[3] = 8 /\ nibble_seq[4] = 1 /\ nibble_seq[5] = 0 /\ nibble_seq[6] = 5

\* X from nibbles 3, 4 and Y from nibbles 5, 6, as signed bytes
Decode(seq) == <<SignedByte(16 * seq[3] + seq[4]), SignedByte(16 * seq[5] + seq[6])>>

\* C9: the frame built for (clamp(dx), clamp(dy)) decodes to exactly
\* (clamp(dx), clamp(dy)), for the encoder applied to any accumulated
\* (dx, dy) and for the frame the main loop actually publishes for it.
C9_RoundTrip ==
    /\ pc = 350 =>
         LET cx == clamp_to_int8(acc_x)
             cy == clamp_to_int8(acc_y)
         IN  Decode([i \in 0..6 |-> SeqNibble(i, cx, cy)])
                = <<Saturate(acc_x), Saturate(acc_y)>>
    /\ Published => Decode(nibble_seq) = <<Saturate(x), Saturate(y)>>

C9_Witness == Published /\ x = -128 /\ y = 127 /\ Decode(nibble_seq) = <<-127, 127>>

\* the scaled sum S of the accepted reports is raw * num / den; its rounding
ScaledSumRounded(raw) == Nearest(raw * move_scale[1], move_scale[2])

\* a drain with nothing accepted since the previous one finds no motion
\* pending and leaves accumulator, sequence, cursor, flag and lines alone
SecondDrainIdle ==
    /\ []((pc = 350 /\ burst = 0) => (~has_new_motion /\ acc_x = 0 /\ acc_y = 0))
    /\ [][(pc = 350 /\ burst = 0)
            => (pc' = 350 \/ (pc' = 376 /\ UNCHANGED <<acc_x, acc_y, has_new_motion,
                    nibble_seq, nibble_len, nibble_pos, sequence_active, data_lines>>))]_vars

\* C10: for the sensitivity factor of the program the drain yields
\* clamp(round(S)) componentwise, S the scaled sum of the reports accepted
\* since the previous drain (round = nearest integer, ties away from zero);
\* the drained value is the sum of the per-report rounded deltas; a second
\* drain with no report in between finds no motion pending and changes nothing.
C10_DrainIsClampRoundOfSum ==
    /\ [](pc = 365 =>
            /\ x = rnd_x /\ y = rnd_y
            /\ sx = Saturate(ScaledSumRounded(raw_x))
            /\ sy = Saturate(ScaledSumRounded(raw_y)))
    /\ SecondDrainIdle

\* two reports (-128, 127): the sum (-256, 254) drains to (-127, 127)
C10_Witness ==
    /\ pc = 365 /\ move_scale = MOVE_SCALE /\ burst = 2
    /\ raw_x = -256 /\ raw_y = 254
    /\ x = -256 /\ y = 254 /\ sx = -127 /\ sy = 127

\* C11: every drained component is the accumulated value saturated to
\* [-127, 127] (127 above, -127 below, the value itself otherwise), never its
\* wrapped low byte; so the X and Y of every sequence offered to the strobe
\* handler lie in [-127, 127] (no byte 0x80), and (1000, -1000) clamps to
\* (127, -127).
C11_SaturatedNotWrapped ==
    /\ sx = Saturate(x) /\ sy = Saturate(y)
    /\ (sequence_active /\ irq_enabled) =>
          /\ Decode(nibble_seq)[1] \in (-127)..127
          /\ Decode(nibble_seq)[2] \in (-127)..127
    /\ clamp_to_int8(1000) = 127 /\ clamp_to_int8(-1000) = -127

\* two reports (100, -100) accumulated to (200, -200), drained and published
C11_Witness ==
    /\ pc = 376 /\ x = 200 /\ y = -200 /\ sx = 127 /\ sy = -127
    /\ sequence_active /\ Decode(nibble_seq) = <<127, -127>>

\* the main loop has reached the end of an iteration in which it found motion
\* pending and drained it
DrainedThisCycle == pc = 376 /\ burst > 0

\* the sequence buffer holds the active 7-nibble frame of the clamped drained delta
FrameOfDrained ==
    /\ sequence_active /\ nibble_len = SeqLen
    /\ IsFrameOf(nibble_seq, Saturate(x), Saturate(y))

\* C12 as stated: every cycle that finds motion pending ends with the active
\* sequence encoding that cycle's clamped delta, whatever the delta's value.
C12_EveryDrainPublishes == DrainedThisCycle => FrameOfDrained

\* C12 amended: a cycle that finds motion pending publishes the frame of its
\* clamped delta when that delta is not (0, 0); when it is (0, 0) the cycle
\* goes straight to the sleep and leaves sequence contents, length and active
\* flag as they were.
C12_NonZeroDrainPublishes ==
    /\ []((DrainedThisCycle /\ (sx # 0 \/ sy # 0)) => FrameOfDrained)
    /\ [][(pc = 365 /\ sx = 0 /\ sy = 0)
            => /\ pc' \in {365, 376}
               /\ UNCHANGED <<nibble_seq, nibble_len, sequence_active>>]_vars

\* a cycle drained (0, 0) while the sequence of an earlier (1, 0) stays active
C12_Witness ==
    /\ DrainedThisCycle /\ sx = 0 /\ sy = 0
    /\ sequence_active /\ Decode(nibble_seq) = <<1, 0>>

\* the scaled delta of report byte v: the signed byte times the sensitivity
\* factor, rounded to the nearest integer
ScaledByte(v) == Nearest(SignedByte(v) * move_scale[1], move_scale[2])

\* C13: a report shorter than 3 bytes changes neither the accumulator, the
\* motion-pending flag, the sequence buffer, the cursor, the active flag nor
\* the data lines; a report of 3 or more bytes adds its scaled byte-1 and
\* byte-2 deltas to the accumulator and sets motion pending.
C13_ShortReportDiscarded ==
    [][(pc = 347 /\ mounted /\ UNCHANGED <<pc, mounted, irq_pending, nibble_pos>>) =>
       \A d \in DeltaBytes, len \in ReportLens :
         (\E b \in ButtonBytes : tuh_hid_report_received_cb(ReportOf(b, d), len)) =>
            IF len < 3
            THEN UNCHANGED <<acc_x, acc_y, has_new_motion, nibble_seq, nibble_len,
                             nibble_pos, sequence_active, data_lines>>
            ELSE /\ acc_x' = acc_x + ScaledByte(d[1])
                 /\ acc_y' = acc_y + ScaledByte(d[2])
                 /\ has_new_motion'
                 /\ UNCHANGED <<nibble_seq, nibble_len, nibble_pos, sequence_active,
                                data_lines>>]_vars

\* a short report was discarded in the tuh_task() call that had accepted
\* (100, -100) before, with a sequence streaming
C13_Witness ==
    /\ dropped /\ pc = 347 /\ has_new_motion
    /\ acc_x = 100 /\ acc_y = -100 /\ burst = 1
    /\ sequence_active /\ nibble_pos = 2

\* C14: a disconnect zeroes the accumulator and clears motion pending, and
\* leaves sequence contents, length, cursor, active flag and data lines as
\* they were; the motion it discards is not drained afterwards.
C14_DisconnectResetsAccumulatorOnly ==
    /\ [][(mounted /\ ~mounted') =>
            /\ acc_x' = 0 /\ acc_y' = 0 /\ ~has_new_motion'
            /\ UNCHANGED <<nibble_seq, nibble_len, nibble_pos, sequence_active,
                           data_lines>>]_vars
    /\ [](~mounted => (acc_x = 0 /\ acc_y = 0 /\ ~has_new_motion
                      /\ pc \in {347, 350, 376}))

\* disconnected with a sequence streaming in the middle of a frame
C14_Witness ==
    /\ pc = 347 /\ ~mounted /\ sequence_active
    /\ nibble_pos = 3 /\ Len(rd_frame) = 3
    /\ acc_x = 0 /\ acc_y = 0 /\ ~has_new_motion
    /\ Decode(nibble_seq) = <<1, 0>>

\* C15 as stated: after an accepted report each button line is driven low
\* when its bit of the button byte is set and released when it is clear.
C15_ButtonLinesFollowMask ==
    [][(pc = 347 /\ mounted /\ UNCHANGED <<pc, mounted, irq_pending, nibble_pos>>) =>
       \A d \in DeltaBytes, b \in ButtonBytes, len \in ReportLens :
         (len >= 3 /\ tuh_hid_report_received_cb(ReportOf(b, d), len)) =>
            \A k \in 1..2 : button_lines'[k] = IF BitOf(b, k - 1) = 1 THEN 0 ELSE 1]_vars

\* C16: a handler invocation changes only the cursor and the data lines and
\* leaves accumulator, motion-pending flag, sequence contents, length and
\* active flag alone; it is defined in every state and runs whenever
\* interrupts are enabled, whatever the main loop is doing; sequence
\* contents, length and active flag are written only by the main loop inside
\* prepare_sequence_for_xy.
C16_HandlerOnlyConsumes ==
    /\ [][gpio_strobe_callback(STROBE_PIN) =>
            UNCHANGED <<acc_x, acc_y, has_new_motion, nibble_seq, nibble_len,
                        sequence_active>>]_vars
    /\ [](irq_enabled => ENABLED HandlerRuns)
    /\ [][(nibble_seq' # nibble_seq \/ nibble_len' # nibble_len
              \/ sequence_active' # sequence_active)
            => (pc \in 283..293 /\ pc' # pc /\ ~irq_enabled)]_vars

\* two strobe edges served from a streaming sequence while accepted motion
\* (100, -100) waits for the drain
C16_Witness ==
    /\ pc = 350 /\ has_new_motion /\ acc_x = 100 /\ acc_y = -100
    /\ sequence_active /\ served /\ edges = 2 /\ nibble_pos = 2
    /\ data_lines = LinesOf(15)

\* C17: between accept and drain no accepted motion is lost or counted twice:
\* since the last (dis)connect, the sum of the scaled deltas of all accepted
\* reports equals the sum of the pre-clamp values of all drains plus what the
\* accumulator holds now (owed = accepted minus drained).
C17_NoMotionLostOrDoubled == owed_x = acc_x /\ owed_y = acc_y

\* (200, -200) was drained and published earlier; a later report (1, 0) is
\* accepted and waits in the accumulator
C17_Witness ==
    /\ pc = 350 /\ has_new_motion /\ burst = 1
    /\ acc_x = 1 /\ acc_y = 0 /\ owed_x = 1 /\ owed_y = 0
    /\ sequence_active /\ Decode(nibble_seq) = <<127, -127>>

\* C18: with the main loop scheduled fairly, motion pending is eventually
\* followed by a state with the flag clear and the accumulator (0, 0),
\* however many strobe edges are served meanwhile.
C18_PendingMotionIsDrained ==
    has_new_motion ~> (~has_new_motion /\ acc_x = 0 /\ acc_y = 0)

\* motion drained in an iteration during which strobe edges were served
C18_Witness ==
    /\ pc = 365 /\ ~has_new_motion /\ acc_x = 0 /\ acc_y = 0
    /\ x = 2 /\ burst = 2 /\ mounted
    /\ sequence_active /\ served /\ edges = 3

\* C19: whenever a sequence is active (outside the critical section that
\* rewrites it, where no reader can see it), the delta it encodes is not
\* (0, 0); so is the sequence every handler invocation reads from.
C19_ActiveSequenceIsNonZero ==
    /\ (sequence_active /\ irq_enabled) => Decode(nibble_seq) # <<0, 0>>
    /\ committed.active => Decode(committed.seq) # <<0, 0>>

\* unplugged after (-128, 127) was published; a complete stale frame has been read
C19_Witness ==
    /\ pc = 347 /\ ~mounted /\ sequence_active
    /\ Len(rd_frame) = SeqLen /\ nibble_pos = 0
    /\ Decode(nibble_seq) = <<-127, 127>>

\* the nibble that the data lines must show for the current cursor
ShownIndex == IF served THEN (nibble_pos + 6) % 7 ELSE 0

\* C20: whenever a sequence is active and neither a publish nor a handler
\* invocation is in progress, the data lines show nibble_seq[0] if no strobe
\* edge was handled since the last publish, and nibble_seq[(nibble_pos+6) mod 7]
\* otherwise; after the first edge that is nibble 0 again.
C20_LinesShowCurrentNibble ==
    (sequence_active /\ irq_enabled) =>
        /\ data_lines = LinesOf(nibble_seq[ShownIndex])
        /\ (served /\ nibble_pos = 1) => data_lines = LinesOf(nibble_seq[0])

\* the first edge after the publish of (1, 0) has been handled: cursor 1, ID on the lines
C20_Witness ==
    /\ sequence_active /\ irq_enabled /\ served
    /\ edges = 1 /\ nibble_pos = 1 /\ rd_pubs = 0
    /\ data_lines = LinesOf(11) /\ Decode(nibble_seq) = <<1, 0>>

====
